---- MODULE Spec2Model ----
(***************************************************************************)
(* Model of the rule engine of 3t3d: class TicTacToe of                    *)
(* src/src/TicTacToe3D.jsx (constructor, makeMove, checkWin,               *)
(* checkWinStandard, checkLine, reset, getCell).                           *)
(*                                                                         *)
(* The state is the fields of one TicTacToe object plus a record of the    *)
(* last call made on it (the operation, what its coordinates named when it *)
(* was called, the value it returned), a counter of accepted moves and a   *)
(* flag for a returned outcome, which the properties refer to, plus the    *)
(* length of the list of marker particle systems that the click handler of *)
(* the view (src/js/main.js, onClick) keeps.                               *)
(***************************************************************************)
EXTENDS Integers, Sequences, FiniteSets

VARIABLES
    width, height, depth,   \* this.width, this.height, this.depth
    winLength,              \* this.winLength
    totalCells,             \* this.totalCells
    board,                  \* this.board, a function on 0-based <<x, y, z>>
    currentPlayer,          \* this.currentPlayer
    winner,                 \* this.winner
    moveCount,              \* this.moveCount
    lastOp,                 \* the last operation called on the object
    target,                 \* what its coordinates named when it was called
    ret,                    \* the value it returned
    accepted,               \* makeMove calls that changed the board since new/reset
    outcomeReturned,        \* a makeMove call since new/reset has returned non-null
    activeParticles         \* the length of the view's activeParticles list

engine == <<board, currentPlayer, winner, moveCount>>
shape == <<width, height, depth, winLength, totalCells>>
vars == <<width, height, depth, winLength, totalCells, board, currentPlayer,
          winner, moveCount, lastOp, target, ret, accepted, outcomeReturned,
          activeParticles>>

\* JavaScript's null
NULL == "null"

(***************************************************************************)
(* Bounds of the model.                                                    *)
(***************************************************************************)
\* largest width, height or depth of a board other than the default one
MaxDim == 3
\* largest number of cells of a board other than the default one
MaxCells == 6
\* largest winLength argument passed to the constructor
MaxWinLength == 3
\* on the default 3x3x3 board, marks are placed in the first StdNumCells
\* cells only (in the order x fastest, then y, then z)
StdNumCells == 7

(***************************************************************************)
(* Helpers.                                                                *)
(***************************************************************************)
Min2(a, b) == IF a <= b THEN a ELSE b

\* MathMin taking the first argument only
MathMin_first(w, h, d) == w

\* Math.min(width, height, depth)
MathMin(w, h, d) == Min2(w, Min2(h, d))

\* the 0-based cells of a w x h x d board
CellsOf(w, h, d) == (0 .. w - 1) \X (0 .. h - 1) \X (0 .. d - 1)

Cells == CellsOf(width, height, depth)

\* initializeBoard(): every cell null
initializeBoard(w, h, d) == [c \in CellsOf(w, h, d) |-> NULL]

\* toIndex without the conversion: the 1-based coordinate used as an index
toIndex_noShift(c) == c

\* makeMove/getCell: "Convert to 0-based for array access"
toIndex(c) == c - 1

\* the bounds test of makeMove (negated there) and of getCell
validCoords(xIdx, yIdx, zIdx) ==
    /\ xIdx >= 0 /\ xIdx < width
    /\ yIdx >= 0 /\ yIdx < height
    /\ zIdx >= 0 /\ zIdx < depth

\* cellIsFree without the test: every cell is taken to be free
cellIsFree_always(v) == TRUE

\* !this.board[xIdx][yIdx][zIdx]: a cell holds null, 'X' or 'O'
cellIsFree(v) == v = NULL

\* otherPlayer with both branches of the conditional alike
otherPlayer_same(p) == IF p = "X" THEN "X" ELSE "O"

\* this.currentPlayer === 'X' ? 'O' : 'X'
otherPlayer(p) == IF p = "X" THEN "O" ELSE "X"

(***************************************************************************)
(* checkWin: the generic direction scan.                                   *)
(***************************************************************************)
\* directions with the diagonal vectors left out: the six axis-aligned ones
directions_axisAligned ==
    << <<-1, 0, 0>>, <<0, -1, 0>>, <<0, 0, -1>>, <<0, 0, 1>>, <<0, 1, 0>>, <<1, 0, 0>> >>

\* the 26 direction vectors, in the order the three nested loops push them
directions ==
    LET all == [i \in 1 .. 27 |->
                  <<((i - 1) \div 9) - 1, (((i - 1) \div 3) % 3) - 1, ((i - 1) % 3) - 1>>]
    IN  SelectSeq(all, LAMBDA v : v[1] # 0 \/ v[2] # 0 \/ v[3] # 0)

\* countRun without the break: a cell that does not match is passed over
RECURSIVE countRun_noBreak(_, _, _, _, _, _, _, _, _)
countRun_noBreak(b, x, y, z, sx, sy, sz, i, player) ==
    IF i < winLength
    THEN LET nx == x + sx * i
             ny == y + sy * i
             nz == z + sz * i
         IN  (IF /\ nx >= 0 /\ nx < width
                 /\ ny >= 0 /\ ny < height
                 /\ nz >= 0 /\ nz < depth
                 /\ b[<<nx, ny, nz>>] = player
              THEN 1 ELSE 0)
               + countRun_noBreak(b, x, y, z, sx, sy, sz, i + 1, player)
    ELSE 0

\* one of the two counting loops: steps i, i+1, ... < winLength from (x, y, z)
\* along (sx, sy, sz), stopping at the board edge or at a different value
RECURSIVE countRun(_, _, _, _, _, _, _, _, _)
countRun(b, x, y, z, sx, sy, sz, i, player) ==
    IF i < winLength
    THEN LET nx == x + sx * i
             ny == y + sy * i
             nz == z + sz * i
         IN  IF /\ nx >= 0 /\ nx < width
                /\ ny >= 0 /\ ny < height
                /\ nz >= 0 /\ nz < depth
                /\ b[<<nx, ny, nz>>] = player
             THEN 1 + countRun(b, x, y, z, sx, sy, sz, i + 1, player)
             ELSE 0
    ELSE 0

\* directionCount with the count started at 0: the pivot is not counted
directionCount_noPivot(b, x, y, z, dir, player) ==
    countRun(b, x, y, z, dir[1], dir[2], dir[3], 1, player)
      + countRun(b, x, y, z, -dir[1], -dir[2], -dir[3], 1, player)

\* the count of one direction: the pivot, the positive loop, the negative loop
directionCount(b, x, y, z, dir, player) ==
    1 + countRun(b, x, y, z, dir[1], dir[2], dir[3], 1, player)
      + countRun(b, x, y, z, -dir[1], -dir[2], -dir[3], 1, player)

\* scanDirections with the count compared for equality with winLength
RECURSIVE scanDirections_exact(_, _, _, _, _, _)
scanDirections_exact(b, x, y, z, player, k) ==
    IF k > Len(directions) THEN NULL
    ELSE IF directionCount(b, x, y, z, directions[k], player) = winLength
         THEN player
         ELSE scanDirections_exact(b, x, y, z, player, k + 1)

\* the loop over the directions, from the k-th on: the first direction whose
\* count reaches winLength returns the player
RECURSIVE scanDirections(_, _, _, _, _, _)
scanDirections(b, x, y, z, player, k) ==
    IF k > Len(directions) THEN NULL
    ELSE IF directionCount(b, x, y, z, directions[k], player) >= winLength
         THEN player
         ELSE scanDirections(b, x, y, z, player, k + 1)

checkWinGeneric(b, x, y, z) == scanDirections(b, x, y, z, b[<<x, y, z>>], 1)

(***************************************************************************)
(* checkWinStandard: the enumerated lines of the 3x3x3 board.              *)
(***************************************************************************)
\* checkLine without the comparison of the third cell
checkLine_firstTwo(a, b, c) == a # NULL /\ a = b

\* a !== null && a === b && b === c
checkLine(a, b, c) == a # NULL /\ a = b /\ b = c

\* One entry per `if` of checkWinStandard, in program order: the lines the
\* `if` tests (one, or two joined by ||) and the cell whose value it returns.
Test1(c1, c2, c3, r) == [lines |-> <<<<c1, c2, c3>>>>, result |-> r]
Test2(c1, c2, c3, e1, e2, e3, r) ==
    [lines |-> <<<<c1, c2, c3>>, <<e1, e2, e3>>>>, result |-> r]

rowTests ==
    [i \in 1 .. 9 |-> LET z == (i - 1) \div 3
                          y == (i - 1) % 3
                      IN  Test1(<<0, y, z>>, <<1, y, z>>, <<2, y, z>>, <<0, y, z>>)]

columnTests ==
    [i \in 1 .. 9 |-> LET z == (i - 1) \div 3
                          x == (i - 1) % 3
                      IN  Test1(<<x, 0, z>>, <<x, 1, z>>, <<x, 2, z>>, <<x, 0, z>>)]

pillarTests ==
    [i \in 1 .. 9 |-> LET x == (i - 1) \div 3
                          y == (i - 1) % 3
                      IN  Test1(<<x, y, 0>>, <<x, y, 1>>, <<x, y, 2>>, <<x, y, 0>>)]

\* xyDiagonalTests returning the corner cell of the first diagonal for both
xyDiagonalTests_firstCorner ==
    [i \in 1 .. 3 |-> LET z == i - 1
                      IN  Test2(<<0, 0, z>>, <<1, 1, z>>, <<2, 2, z>>,
                                <<2, 0, z>>, <<1, 1, z>>, <<0, 2, z>>, <<0, 0, z>>)]

xyDiagonalTests ==
    [i \in 1 .. 3 |-> LET z == i - 1
                      IN  Test2(<<0, 0, z>>, <<1, 1, z>>, <<2, 2, z>>,
                                <<2, 0, z>>, <<1, 1, z>>, <<0, 2, z>>, <<1, 1, z>>)]

xzDiagonalTests ==
    [i \in 1 .. 3 |-> LET y == i - 1
                      IN  Test2(<<0, y, 0>>, <<1, y, 1>>, <<2, y, 2>>,
                                <<2, y, 0>>, <<1, y, 1>>, <<0, y, 2>>, <<1, y, 1>>)]

yzDiagonalTests ==
    [i \in 1 .. 3 |-> LET x == i - 1
                      IN  Test2(<<x, 0, 0>>, <<x, 1, 1>>, <<x, 2, 2>>,
                                <<x, 2, 0>>, <<x, 1, 1>>, <<x, 0, 2>>, <<x, 1, 1>>)]

\* spaceDiagonalTests with the first diagonal tested again in place of the last
spaceDiagonalTests_firstRepeated ==
    << Test1(<<0, 0, 0>>, <<1, 1, 1>>, <<2, 2, 2>>, <<1, 1, 1>>),
       Test1(<<2, 0, 0>>, <<1, 1, 1>>, <<0, 2, 2>>, <<1, 1, 1>>),
       Test1(<<0, 2, 0>>, <<1, 1, 1>>, <<2, 0, 2>>, <<1, 1, 1>>),
       Test1(<<0, 0, 0>>, <<1, 1, 1>>, <<2, 2, 2>>, <<1, 1, 1>>) >>

spaceDiagonalTests ==
    << Test1(<<0, 0, 0>>, <<1, 1, 1>>, <<2, 2, 2>>, <<1, 1, 1>>),
       Test1(<<2, 0, 0>>, <<1, 1, 1>>, <<0, 2, 2>>, <<1, 1, 1>>),
       Test1(<<0, 2, 0>>, <<1, 1, 1>>, <<2, 0, 2>>, <<1, 1, 1>>),
       Test1(<<2, 2, 0>>, <<1, 1, 1>>, <<0, 0, 2>>, <<1, 1, 1>>) >>

standardTests ==
    rowTests \o columnTests \o pillarTests \o xyDiagonalTests \o xzDiagonalTests
        \o yzDiagonalTests \o spaceDiagonalTests

testHolds(b, t) ==
    \E j \in 1 .. Len(t.lines) :
        checkLine(b[t.lines[j][1]], b[t.lines[j][2]], b[t.lines[j][3]])

RECURSIVE scanTests(_, _)
scanTests(b, k) ==
    IF k > Len(standardTests) THEN NULL
    ELSE IF testHolds(b, standardTests[k]) THEN b[standardTests[k].result]
         ELSE scanTests(b, k + 1)

checkWinStandard(b) == scanTests(b, 1)

\* the shape test that selects the enumerated path
isStandard == width = 3 /\ height = 3 /\ depth = 3 /\ winLength = 3

\* checkWin(x, y, z) on board b (0-based coordinates)
checkWin(b, x, y, z) ==
    IF b[<<x, y, z>>] = NULL THEN NULL
    ELSE IF isStandard THEN checkWinStandard(b)
    ELSE checkWinGeneric(b, x, y, z)

(***************************************************************************)
(* Inputs of the calls.                                                    *)
(***************************************************************************)
\* x + 3y + 9z of a 0-based cell of the default board
cellRank(c) == c[1] + 3 * c[2] + 9 * c[3]

\* 1-based coordinates of the cells the callers name
InRangeInputs ==
    {<<c[1] + 1, c[2] + 1, c[3] + 1>> : c \in
        {c \in Cells : (width = 3 /\ height = 3 /\ depth = 3) => cellRank(c) < StdNumCells}}

\* 1-based coordinates off the board: each axis below and above its range
\* with the other two coordinates at 1, and both corners off the board
OutOfRangeInputs ==
    { <<0, 1, 1>>, <<width + 1, 1, 1>>, <<1, 0, 1>>, <<1, height + 1, 1>>,
      <<1, 1, 0>>, <<1, 1, depth + 1>>, <<0, 0, 0>>,
      <<width + 1, height + 1, depth + 1>> }

Inputs == InRangeInputs \cup OutOfRangeInputs

\* the 1-based coordinates (x, y, z) name a cell of the board
OnBoard(x, y, z) == x \in 1 .. width /\ y \in 1 .. height /\ z \in 1 .. depth

\* the 0-based cell that the 1-based coordinates (x, y, z) name
CellAt(x, y, z) == <<x - 1, y - 1, z - 1>>

\* what the 1-based coordinates (x, y, z) name in the current state
targetOf(x, y, z) ==
    IF ~OnBoard(x, y, z) THEN "offBoard"
    ELSE IF board[CellAt(x, y, z)] = NULL THEN "free"
    ELSE "occupied"

\* the winLength argument left out (null); `||` treats null and 0 alike
Omitted == 0

\* constructor arguments: the default board, the 2x2x2 cube, and the smaller
\* boards, those with a side of 0 included, with an explicit or a defaulted
\* winLength
ConstructorArgs ==
    {<<3, 3, 3, Omitted>>, <<2, 2, 2, Omitted>>} \cup
    {a \in (0 .. MaxDim) \X (0 .. MaxDim) \X (0 .. MaxDim) \X ({Omitted} \cup (1 .. MaxWinLength)) :
        a[1] * a[2] * a[3] <= MaxCells}

(***************************************************************************)
(* The operations.                                                         *)
(***************************************************************************)
\* new TicTacToe(w, h, d, wl)
constructor(w, h, d, wl) ==
    /\ width = w
    /\ height = h
    /\ depth = d
    /\ winLength = (IF wl = Omitted THEN MathMin(w, h, d) ELSE wl)
    /\ board = initializeBoard(w, h, d)
    /\ currentPlayer = "X"
    /\ winner = NULL
    /\ moveCount = 0
    /\ totalCells = w * h * d
    /\ lastOp = "new"
    /\ target = "none"
    /\ ret = "undefined"
    /\ accepted = 0

\* increment by two
increment_twice(n) == n + 2

\* this.moveCount++
increment(n) == n + 1

\* this.moveCount === this.totalCells
boardFull(mc) == mc = totalCells

\* makeMove with the full-board test made before the win test
makeMove_drawFirst(x, y, z) ==
    LET xIdx == toIndex(x)
        yIdx == toIndex(y)
        zIdx == toIndex(z)
        idx == <<xIdx, yIdx, zIdx>>
    IN  /\ lastOp' = "makeMove"
        /\ target' = targetOf(x, y, z)
        /\ UNCHANGED shape
        /\ IF ~validCoords(xIdx, yIdx, zIdx)
           THEN \* Invalid move
                /\ ret' = NULL
                /\ UNCHANGED engine
           ELSE IF cellIsFree(board[idx])
           THEN LET placed == [board EXCEPT ![idx] = currentPlayer]
                    won == checkWin(placed, xIdx, yIdx, zIdx)
                IN  /\ board' = placed
                    /\ moveCount' = increment(moveCount)
                    /\ IF boardFull(moveCount')
                       THEN /\ winner' = "draw"
                            /\ ret' = "draw"
                            /\ UNCHANGED currentPlayer
                       ELSE IF won # NULL
                       THEN /\ winner' = won
                            /\ ret' = won
                            /\ UNCHANGED currentPlayer
                       ELSE /\ currentPlayer' = otherPlayer(currentPlayer)
                            /\ ret' = NULL
                            /\ UNCHANGED winner
           ELSE \* Cell already occupied
                /\ ret' = NULL
                /\ UNCHANGED engine
        /\ accepted' = (IF board' # board THEN accepted + 1 ELSE accepted)

\* makeMove without the assignment this.winner = 'draw'
makeMove_drawNotStored(x, y, z) ==
    LET xIdx == toIndex(x)
        yIdx == toIndex(y)
        zIdx == toIndex(z)
        idx == <<xIdx, yIdx, zIdx>>
    IN  /\ lastOp' = "makeMove"
        /\ target' = targetOf(x, y, z)
        /\ UNCHANGED shape
        /\ IF ~validCoords(xIdx, yIdx, zIdx)
           THEN \* Invalid move
                /\ ret' = NULL
                /\ UNCHANGED engine
           ELSE IF cellIsFree(board[idx])
           THEN LET placed == [board EXCEPT ![idx] = currentPlayer]
                    won == checkWin(placed, xIdx, yIdx, zIdx)
                IN  /\ board' = placed
                    /\ moveCount' = increment(moveCount)
                    /\ IF won # NULL
                       THEN /\ winner' = won
                            /\ ret' = won
                            /\ UNCHANGED currentPlayer
                       ELSE IF boardFull(moveCount')
                       THEN /\ ret' = "draw"
                            /\ UNCHANGED <<winner, currentPlayer>>
                       ELSE /\ currentPlayer' = otherPlayer(currentPlayer)
                            /\ ret' = NULL
                            /\ UNCHANGED winner
           ELSE \* Cell already occupied
                /\ ret' = NULL
                /\ UNCHANGED engine
        /\ accepted' = (IF board' # board THEN accepted + 1 ELSE accepted)

\* makeMove(x, y, z), 1-based coordinates
makeMove(x, y, z) ==
    LET xIdx == toIndex(x)
        yIdx == toIndex(y)
        zIdx == toIndex(z)
        idx == <<xIdx, yIdx, zIdx>>
    IN  /\ lastOp' = "makeMove"
        /\ target' = targetOf(x, y, z)
        /\ UNCHANGED shape
        /\ IF ~validCoords(xIdx, yIdx, zIdx)
           THEN \* Invalid move
                /\ ret' = NULL
                /\ UNCHANGED engine
           ELSE IF cellIsFree(board[idx])
           THEN LET placed == [board EXCEPT ![idx] = currentPlayer]
                    won == checkWin(placed, xIdx, yIdx, zIdx)
                IN  /\ board' = placed
                    /\ moveCount' = increment(moveCount)
                    /\ IF won # NULL
                       THEN /\ winner' = won
                            /\ ret' = won
                            /\ UNCHANGED currentPlayer
                       ELSE IF boardFull(moveCount')
                       THEN /\ winner' = "draw"
                            /\ ret' = "draw"
                            /\ UNCHANGED currentPlayer
                       ELSE /\ currentPlayer' = otherPlayer(currentPlayer)
                            /\ ret' = NULL
                            /\ UNCHANGED winner
           ELSE \* Cell already occupied
                /\ ret' = NULL
                /\ UNCHANGED engine
        /\ accepted' = (IF board' # board THEN accepted + 1 ELSE accepted)

\* reset without the assignment to this.currentPlayer
reset_keepsPlayer ==
    /\ board' = initializeBoard(width, height, depth)
    /\ winner' = NULL
    /\ moveCount' = 0
    /\ lastOp' = "reset"
    /\ target' = "none"
    /\ ret' = "undefined"
    /\ accepted' = 0
    /\ UNCHANGED <<shape, currentPlayer>>

\* reset()
reset ==
    /\ board' = initializeBoard(width, height, depth)
    /\ currentPlayer' = "X"
    /\ winner' = NULL
    /\ moveCount' = 0
    /\ lastOp' = "reset"
    /\ target' = "none"
    /\ ret' = "undefined"
    /\ accepted' = 0
    /\ UNCHANGED shape

\* readCell with the coordinates used as indices, without the conversion
readCell_unshifted(b, x, y, z) ==
    IF validCoords(x, y, z) THEN b[<<x, y, z>>] ELSE NULL

\* the value getCell(x, y, z) returns on board b
readCell(b, x, y, z) ==
    LET xIdx == toIndex(x)
        yIdx == toIndex(y)
        zIdx == toIndex(z)
    IN  IF validCoords(xIdx, yIdx, zIdx) THEN b[<<xIdx, yIdx, zIdx>>] ELSE NULL

\* getCell(x, y, z), 1-based coordinates
getCell(x, y, z) ==
    /\ lastOp' = "getCell"
    /\ target' = targetOf(x, y, z)
    /\ ret' = readCell(board, x, y, z)
    /\ UNCHANGED <<shape, engine, accepted>>

Init ==
    /\ \E a \in ConstructorArgs : constructor(a[1], a[2], a[3], a[4])
    /\ outcomeReturned = FALSE
    /\ activeParticles = 0

MakeMove ==
    \E a \in Inputs :
        /\ makeMove(a[1], a[2], a[3])
        /\ outcomeReturned' = (outcomeReturned \/ ret' # NULL)
        /\ UNCHANGED activeParticles

Reset ==
    /\ reset
    /\ outcomeReturned' = FALSE
    /\ UNCHANGED activeParticles

GetCell ==
    \E a \in Inputs :
        /\ getCell(a[1], a[2], a[3])
        /\ UNCHANGED <<outcomeReturned, activeParticles>>

Next == MakeMove \/ Reset \/ GetCell

Spec == Init /\ [][Next]_vars

(***************************************************************************)
(* Vocabulary of the properties, stated on the board and on the recorded   *)
(* call, independently of the engine's code.                               *)
(***************************************************************************)
Marks == {"X", "O"}

\* the other mark
Opposite(m) == CHOOSE n \in Marks : n # m

\* the number of cells holding a mark
MarkedCells(b) == Cardinality({c \in DOMAIN b : b[c] # NULL})

\* this step is a makeMove call
MoveCall == lastOp' = "makeMove"

\* this step is a makeMove call that placed a mark
MovePlaced == MoveCall /\ board' # board

\* the direction vectors of straight lines
LineSteps == ((-1 .. 1) \X (-1 .. 1) \X (-1 .. 1)) \ {<<0, 0, 0>>}

\* the cell k steps of d away from p
Along(p, d, k) == <<p[1] + k * d[1], p[2] + k * d[2], p[3] + k * d[3]>>

\* some straight line of three cells of b, p, p + d, p + 2d, holds mark m
HoldsLine3(b, m) ==
    \E p \in DOMAIN b :
        /\ b[p] = m
        /\ \E d \in LineSteps :
            /\ Along(p, d, 2) \in DOMAIN b
            /\ b[Along(p, d, 1)] = m
            /\ b[Along(p, d, 2)] = m

AnyLine3(b) == \E m \in Marks : HoldsLine3(b, m)

\* the 13 axes: one direction vector of each pair of opposite ones
Axes ==
    {d \in LineSteps :
        \/ d[1] > 0
        \/ d[1] = 0 /\ d[2] > 0
        \/ d[1] = 0 /\ d[2] = 0 /\ d[3] > 0}

\* c is a cell of the board
InBoard(c) ==
    /\ c[1] \in 0 .. width - 1
    /\ c[2] \in 0 .. height - 1
    /\ c[3] \in 0 .. depth - 1

\* some axis holds n consecutive cells of b, all on the board, that include p
\* and all hold the mark of p
RunThrough(b, p, n) ==
    /\ b[p] # NULL
    /\ \E d \in Axes : \E j \in 0 .. n - 1 :
          \A k \in 0 .. n - 1 :
              /\ InBoard(Along(p, d, k - j))
              /\ b[Along(p, d, k - j)] = b[p]

(***************************************************************************)
(* C1. Once the outcome is terminal (winner is 'X', 'O' or 'draw'), every  *)
(* later makeMove call is rejected: board, moveCount, currentPlayer and    *)
(* winner are unchanged by it.                                             *)
(***************************************************************************)
C1_RejectedAfterTerminal ==
    [][(winner # NULL /\ MoveCall) => UNCHANGED <<board, moveCount, currentPlayer, winner>>]_vars

(***************************************************************************)
(* C2. Over makeMove calls without reset, the winner field changes at most *)
(* once: after it is 'X', 'O' or 'draw' it keeps that value.               *)
(***************************************************************************)
C2_OutcomeSetOnce ==
    [][(winner # NULL /\ MoveCall) => winner' = winner]_vars

(***************************************************************************)
(* C3. makeMove on an in-range cell that is already occupied returns null  *)
(* and leaves board, moveCount, currentPlayer and winner as they were, in  *)
(* any state and however often it is repeated.                             *)
(***************************************************************************)
C3_OccupiedRejected ==
    [][(MoveCall /\ target' = "occupied") => (ret' = NULL /\ UNCHANGED engine)]_vars

\* a makeMove on an occupied cell has just returned, in a game in progress
C3_Witness ==
    /\ lastOp = "makeMove" /\ target = "occupied" /\ ret = NULL
    /\ moveCount = 2 /\ winner = NULL

(***************************************************************************)
(* C4. makeMove with a coordinate outside [1, width] x [1, height] x       *)
(* [1, depth] returns null and leaves board, moveCount, currentPlayer and  *)
(* winner unchanged; on a fresh session moveCount stays 0 and the outcome  *)
(* stays in progress.                                                      *)
(***************************************************************************)
C4_OutOfRangeRejected ==
    [][(MoveCall /\ target' = "offBoard") => (ret' = NULL /\ UNCHANGED engine)]_vars

\* a makeMove off the board has just returned on a fresh session
C4_Witness ==
    /\ lastOp = "makeMove" /\ target = "offBoard" /\ ret = NULL
    /\ moveCount = 0 /\ winner = NULL /\ MarkedCells(board) = 0

(***************************************************************************)
(* C5. In every reachable state moveCount is the number of non-empty cells *)
(* and the number of accepted makeMove calls since construction or the     *)
(* last reset; an accepted move increments it by exactly one and a         *)
(* rejected move does not change it.                                       *)
(***************************************************************************)
C5_MoveCountIsMarks ==
    /\ [](moveCount = MarkedCells(board) /\ moveCount = accepted)
    /\ [][MoveCall => moveCount' = (IF board' # board THEN moveCount + 1 ELSE moveCount)]_vars

\* three accepted moves, then a rejected one
C5_Witness ==
    /\ lastOp = "makeMove" /\ target = "occupied"
    /\ moveCount = 3 /\ accepted = 3 /\ MarkedCells(board) = 3

(***************************************************************************)
(* C6. After an accepted makeMove that leaves the outcome in progress,     *)
(* currentPlayer is the other mark; after an accepted makeMove that sets   *)
(* the outcome to a win or a draw, and after a rejected makeMove,          *)
(* currentPlayer is the same as before the call.                           *)
(***************************************************************************)
C6_TurnAlternation ==
    [][MoveCall =>
        /\ (board' # board /\ winner' = NULL) => currentPlayer' = Opposite(currentPlayer)
        /\ (board' # board /\ ret' # NULL) => currentPlayer' = currentPlayer
        /\ (board' = board) => currentPlayer' = currentPlayer]_vars

\* two accepted moves have alternated the turn X -> O -> X
C6_Witness ==
    /\ lastOp = "makeMove" /\ target = "free" /\ ret = NULL
    /\ moveCount = 2 /\ winner = NULL /\ currentPlayer = "X"

(***************************************************************************)
(* C7. Whenever makeMove returns a mark ('X' or 'O'), on either detection  *)
(* path, that mark is currentPlayer as it was at the call, and the winner  *)
(* field is set to that mark.                                              *)
(***************************************************************************)
C7_WinnerIsMover ==
    [][(MoveCall /\ ret' \in Marks) => (ret' = currentPlayer /\ winner' = ret')]_vars

\* O has just won on the default board, on the enumerated path
C7_Witness ==
    /\ isStandard /\ lastOp = "makeMove" /\ ret = "O" /\ winner = "O"
    /\ currentPlayer = "O" /\ moveCount = 6

(***************************************************************************)
(* C8. The outcome becomes 'draw' exactly when an accepted move fills the  *)
(* last empty cell and no win was ever reported; 'draw' is never set while *)
(* a cell is still empty.                                                  *)
(***************************************************************************)
C8_DrawExactlyOnFullBoardWithoutWin ==
    [][MoveCall =>
        ((ret' = "draw" /\ winner' = "draw")
            <=> (/\ board' # board
                 /\ MarkedCells(board') = width * height * depth
                 /\ winner = NULL
                 /\ ret' \notin Marks))]_vars

(***************************************************************************)
(* C9. On the default session (3x3x3, winLength 3), makeMove returns null  *)
(* on every accepted move that leaves no straight line of three cells in   *)
(* one mark, and returns the mover's mark on the first accepted move that  *)
(* completes such a line; X(1,1,1) O(2,1,1) X(1,2,1) O(2,2,1) X(1,3,1)     *)
(* returns null four times and then 'X'.                                   *)
(***************************************************************************)
C9_FirstLineWins ==
    [][(isStandard /\ MovePlaced /\ ~AnyLine3(board)) =>
        ret' = (IF AnyLine3(board') THEN currentPlayer ELSE NULL)]_vars

\* the board of the example after its fifth move, which returned 'X'
C9_Witness ==
    /\ isStandard /\ lastOp = "makeMove" /\ ret = "X" /\ winner = "X" /\ moveCount = 5
    /\ board[<<0, 0, 0>>] = "X" /\ board[<<0, 1, 0>>] = "X" /\ board[<<0, 2, 0>>] = "X"
    /\ board[<<1, 0, 0>>] = "O" /\ board[<<1, 1, 0>>] = "O"

(***************************************************************************)
(* C10. A session with winLength 1 ends on its first accepted move:        *)
(* makeMove returns 'X', winner is 'X', and currentPlayer stays 'X'.       *)
(***************************************************************************)
C10_WinLengthOneWinsAtOnce ==
    [][(winLength = 1 /\ moveCount = 0 /\ MovePlaced) =>
        (ret' = "X" /\ winner' = "X" /\ currentPlayer' = "X")]_vars

\* the first move on a board of several cells with winLength 1 has won
C10_Witness ==
    /\ winLength = 1 /\ totalCells > 1 /\ moveCount = 1
    /\ lastOp = "makeMove" /\ ret = "X" /\ winner = "X" /\ currentPlayer = "X"

\* the cell that this step marked
Pivot == CHOOSE c \in Cells : board'[c] # board[c]

(***************************************************************************)
(* C11. On a 3x3x3 board with winLength 3, after every move that places a  *)
(* mark, in every state reachable through makeMove, the direction scan     *)
(* applied to the just-played cell and the enumerated checkWinStandard     *)
(* give the same verdict.                                                  *)
(***************************************************************************)
C11_ScanAgreesWithEnumeration ==
    [][(isStandard /\ MovePlaced) =>
        checkWinGeneric(board', Pivot[1], Pivot[2], Pivot[3]) = checkWinStandard(board')]_vars

(***************************************************************************)
(* C12. Construction with a non-positive width, height or depth, or with a *)
(* winLength outside [1, min(width, height, depth)], fails: no session     *)
(* exists with such a shape.                                               *)
(***************************************************************************)
C12_ConstructionValidated ==
    /\ width >= 1 /\ height >= 1 /\ depth >= 1
    /\ winLength >= 1
    /\ \A side \in {width, height, depth} : winLength <= side

\* the smallest of the three sides
SmallestSide == CHOOSE k \in {width, height, depth} : \A side \in {width, height, depth} : k <= side

(***************************************************************************)
(* C13. When winLength is not supplied at construction, winLength is       *)
(* min(width, height, depth) (3 on the default board); width, height,      *)
(* depth, winLength and totalCells are never changed by makeMove, getCell  *)
(* or reset.                                                               *)
(***************************************************************************)
C13_DefaultWinLengthAndFixedShape ==
    /\ \A a \in ConstructorArgs :
          (a[4] = Omitted /\ constructor(a[1], a[2], a[3], a[4])) => winLength = SmallestSide
    /\ [][UNCHANGED <<width, height, depth, winLength, totalCells>>]_vars

\* the default session, built without a winLength, after moves and a getCell
C13_Witness ==
    /\ width = 3 /\ height = 3 /\ depth = 3 /\ winLength = 3 /\ totalCells = 27
    /\ lastOp = "getCell" /\ moveCount = 2

(***************************************************************************)
(* C14. From any reachable state, reset() yields the state of a freshly    *)
(* constructed session of the same dimensions: every cell empty, moveCount *)
(* 0, currentPlayer 'X', winner null, the shape as it was; so play after   *)
(* reset goes on from the state a new session starts in.                   *)
(***************************************************************************)
C14_ResetIsFresh ==
    [][lastOp' = "reset" =>
        /\ DOMAIN board' = Cells
        /\ \A c \in Cells : board'[c] = NULL
        /\ moveCount' = 0
        /\ currentPlayer' = "X"
        /\ winner' = NULL
        /\ UNCHANGED <<width, height, depth, winLength, totalCells>>]_vars

\* reset has just returned on a board of several cells
C14_Witness ==
    /\ lastOp = "reset" /\ totalCells > 1
    /\ MarkedCells(board) = 0 /\ moveCount = 0 /\ currentPlayer = "X" /\ winner = NULL

(***************************************************************************)
(* C15. getCell(x, y, z), 1-based, returns the mark stored in that cell    *)
(* (null when it is empty) for in-range coordinates, returns null for any  *)
(* out-of-range coordinate, and never changes board, moveCount,            *)
(* currentPlayer or winner.                                                *)
(***************************************************************************)
C15_GetCellReads ==
    [][lastOp' = "getCell" => \A a \in Inputs :
          getCell(a[1], a[2], a[3]) =>
            /\ ret' = (IF OnBoard(a[1], a[2], a[3]) THEN board[CellAt(a[1], a[2], a[3])] ELSE NULL)
            /\ UNCHANGED <<board, moveCount, currentPlayer, winner>>]_vars

\* getCell has just returned the 'O' of an occupied cell
C15_Witness ==
    /\ lastOp = "getCell" /\ target = "occupied" /\ ret = "O"
    /\ \E c \in Cells : board[c] = "X"

(***************************************************************************)
(* C16. A mark never changes or disappears between resets: a makeMove      *)
(* call leaves every non-null cell exactly as it was.                      *)
(***************************************************************************)
C16_MarksPersist ==
    [][MoveCall => \A c \in Cells : board[c] # NULL => board'[c] = board[c]]_vars

\* a fifth mark has been placed next to four earlier ones of both players
C16_Witness ==
    /\ lastOp = "makeMove" /\ target = "free" /\ moveCount = 5
    /\ Cardinality({c \in Cells : board[c] = "X"}) = 3
    /\ Cardinality({c \in Cells : board[c] = "O"}) = 2

(***************************************************************************)
(* C17. An accepted makeMove(x, y, z) targets a cell that was null, writes *)
(* the mover's mark into exactly that cell and into no other, and          *)
(* getCell(x, y, z) on the resulting board returns that mark.              *)
(***************************************************************************)
C17_AcceptedMoveWritesOneCell ==
    [][MovePlaced => \A a \in Inputs :
          makeMove(a[1], a[2], a[3]) =>
            /\ OnBoard(a[1], a[2], a[3])
            /\ board[CellAt(a[1], a[2], a[3])] = NULL
            /\ board' = [board EXCEPT ![CellAt(a[1], a[2], a[3])] = currentPlayer]
            /\ readCell(board', a[1], a[2], a[3]) = currentPlayer]_vars

\* the second player's mark has just been written into a free cell
C17_Witness ==
    /\ lastOp = "makeMove" /\ target = "free" /\ moveCount = 2
    /\ currentPlayer = "X" /\ winner = NULL
    /\ \E c \in Cells : board[c] = "O"

(***************************************************************************)
(* C20. On the generic path, a move whose cell lies in a run of the        *)
(* mover's mark longer than winLength is still reported as a win for the   *)
(* mover: makeMove returns the mover and winner becomes the mover.         *)
(***************************************************************************)
C20_LongerRunWins ==
    [][(~isStandard /\ MovePlaced /\ RunThrough(board', Pivot, winLength + 1)) =>
          (ret' = currentPlayer /\ winner' = currentPlayer)]_vars

\* X's third mark has just joined two separate marks into a run of three on a
\* board whose winLength is 2, with no win before it
C20_Witness ==
    /\ ~isStandard /\ winLength = 2
    /\ lastOp = "makeMove" /\ target = "free" /\ ret = "X" /\ winner = "X"
    /\ moveCount = 5
    /\ Cardinality({c \in Cells : board[c] = "X"}) = 3
    /\ Cardinality({c \in Cells : board[c] = "O"}) = 2
    /\ \E c \in Cells : RunThrough(board, c, 3)

(***************************************************************************)
(* checkWin and checkWinStandard as functions of the board content: two    *)
(* more specifications whose initial states hold a board shape and a       *)
(* content drawn from bounded sets, and whose steps call the methods: one  *)
(* for the shapes of the generic path, one for the default board.          *)
(***************************************************************************)
\* the most marks placed in arbitrary cells of the default board
StdMaxMarks == 2

\* the longest single-file board
ScanMaxSide == 4

\* the constructor arguments of the default board
StandardArgs == {<<3, 3, 3, Omitted>>}

\* the shapes of the generic path: the constructed ones, with the winLength
\* they end up with (one longer than every side only on the boards of at
\* most ScanMaxSide cells), and the single-file boards along each axis
GenericArgs ==
    {a \in ConstructorArgs \ StandardArgs :
        /\ a[4] # Omitted
        /\ \/ a[1] * a[2] * a[3] <= ScanMaxSide
           \/ a[4] <= a[1] \/ a[4] <= a[2] \/ a[4] <= a[3]} \cup
    {<<2, 2, 2, 2>>} \cup
    {a \in (1 .. ScanMaxSide) \X (1 .. ScanMaxSide) \X (1 .. ScanMaxSide) \X (1 .. MaxWinLength) :
        a[1] * a[2] * a[3] = ScanMaxSide}

Values == Marks \cup {NULL}

Cube == CellsOf(3, 3, 3)

\* the straight three-cell lines of the cube, as the geometry gives them: a
\* first cell and an axis whose second step is still in the cube
CubeLines ==
    {<<p, Along(p, d, 1), Along(p, d, 2)>> : p \in Cube, d \in Axes} \cap (Cube \X Cube \X Cube)

\* the empty default board with at most n marks written anywhere
RECURSIVE LooseBoards(_)
LooseBoards(n) ==
    IF n = 0 THEN {initializeBoard(3, 3, 3)}
    ELSE LET fewer == LooseBoards(n - 1)
         IN  fewer \cup {[b EXCEPT ![c] = m] : b \in fewer, c \in Cube, m \in Marks}

\* the empty default board with one line holding any three values
OneLineBoards ==
    {[c \in Cube |-> IF c = l[1] THEN v[1]
                     ELSE IF c = l[2] THEN v[2]
                     ELSE IF c = l[3] THEN v[3]
                     ELSE NULL] : l \in CubeLines, v \in Values \X Values \X Values}

\* the empty default board with the first of two lines filled with one mark
\* and what is left of the second filled with a mark
TwoLineBoards ==
    {[c \in Cube |-> IF c \in {t[1][1], t[1][2], t[1][3]} THEN t[3]
                     ELSE IF c \in {t[2][1], t[2][2], t[2][3]} THEN t[4]
                     ELSE NULL] : t \in CubeLines \X CubeLines \X Marks \X Marks}

\* the contents given to a board of w x h x d cells
Contents(w, h, d) ==
    IF w = 3 /\ h = 3 /\ d = 3
    THEN LooseBoards(StdMaxMarks) \cup OneLineBoards \cup TwoLineBoards
    ELSE [CellsOf(w, h, d) -> Values]

\* an engine constructed with arguments of A whose board holds any of the
\* contents
boardGiven(A) ==
    \E a \in A :
        /\ width = a[1]
        /\ height = a[2]
        /\ depth = a[3]
        /\ winLength = (IF a[4] = Omitted THEN MathMin(a[1], a[2], a[3]) ELSE a[4])
        /\ totalCells = a[1] * a[2] * a[3]
        /\ board \in Contents(a[1], a[2], a[3])
        /\ moveCount = MarkedCells(board)
        /\ currentPlayer = "X"
        /\ winner = NULL
        /\ lastOp = "new"
        /\ target = "none"
        /\ ret = "undefined"
        /\ accepted = 0
        /\ outcomeReturned = FALSE
        /\ activeParticles = 0

\* a call of checkWin(x, y, z) as makeMove makes it: 0-based coordinates of
\* an occupied cell of the board
checkWinCall(x, y, z) ==
    /\ board[<<x, y, z>>] # NULL
    /\ lastOp' = "checkWin"
    /\ target' = "occupied"
    /\ ret' = checkWin(board, x, y, z)
    /\ UNCHANGED <<shape, engine, accepted>>

\* a call of checkWinStandard() on the default board
checkWinStandardCall ==
    /\ isStandard
    /\ lastOp' = "checkWinStandard"
    /\ target' = "none"
    /\ ret' = checkWinStandard(board)
    /\ UNCHANGED <<shape, engine, accepted>>

CheckWin ==
    \E c \in Cells :
        /\ checkWinCall(c[1], c[2], c[3])
        /\ UNCHANGED <<outcomeReturned, activeParticles>>

CheckWinStandard ==
    /\ checkWinStandardCall
    /\ UNCHANGED <<outcomeReturned, activeParticles>>

GenericInit == boardGiven(GenericArgs)

SpecGeneric == GenericInit /\ [][CheckWin]_vars

\* a call of checkWin(x, y, z) that takes the generic path: the scan of the
\* directions, on an occupied cell
genericScanCall(x, y, z) ==
    /\ board[<<x, y, z>>] # NULL
    /\ ~isStandard
    /\ lastOp' = "checkWin"
    /\ target' = "occupied"
    /\ ret' = checkWinGeneric(board, x, y, z)
    /\ UNCHANGED <<shape, engine, accepted>>

GenericScan ==
    \E c \in Cells :
        /\ genericScanCall(c[1], c[2], c[3])
        /\ UNCHANGED <<outcomeReturned, activeParticles>>

SpecScan == GenericInit /\ [][GenericScan]_vars

StandardInit == boardGiven(StandardArgs)

SpecStandard == StandardInit /\ [][CheckWinStandard]_vars

(***************************************************************************)
(* C18. For every board shape and winLength that takes the generic path    *)
(* and every board content, checkWin(x, y, z) on an occupied cell returns  *)
(* that cell's mark if and only if some axis holds winLength consecutive   *)
(* in-bounds cells that include (x, y, z) and all hold that mark, and      *)
(* returns null otherwise: cells off the board, and matching cells cut off *)
(* from the pivot by an empty or opposing cell, do not count.  A call      *)
(* leaves the content as it is, so the property is stated on each content  *)
(* as it is given.                                                         *)
(***************************************************************************)
C18_GenericScanFindsRuns ==
    (~isStandard /\ lastOp = "new") =>
        \A c \in Cells :
            board[c] # NULL =>
                checkWin(board, c[1], c[2], c[3])
                    = (IF RunThrough(board, c, winLength) THEN board[c] ELSE NULL)

\* checkWin has returned null on a generic board where an X has an X before
\* it, an empty cell after it and a further X behind that
C18_Witness ==
    /\ ~isStandard /\ winLength = 3
    /\ lastOp = "checkWin" /\ ret = NULL
    /\ \E c \in Cells, d \in Axes :
          /\ board[c] = "X"
          /\ InBoard(Along(c, d, 2)) /\ InBoard(Along(c, d, -1))
          /\ board[Along(c, d, -1)] = "X"
          /\ board[Along(c, d, 1)] = NULL
          /\ board[Along(c, d, 2)] = "X"

(***************************************************************************)
(* C19. checkWinStandard tests exactly the 49 distinct straight three-cell *)
(* lines of the 3x3x3 cube (27 axis-aligned, 18 plane diagonals, 4 space   *)
(* diagonals), none missing and none added, and for every board content    *)
(* returns a mark if and only if one of those lines holds three equal      *)
(* non-empty marks, the returned mark being the mark of such a line.       *)
(***************************************************************************)
\* the lines that the tests of checkWinStandard name, one per tested line
TestedLines ==
    {<<k, j>> \in (1 .. Len(standardTests)) \X (1 .. 2) : j <= Len(standardTests[k].lines)}

\* the cells of a line
CellsOfLine(l) == {l[1], l[2], l[3]}

\* the number of coordinates that change along a line
Varying(l) == Cardinality({i \in 1 .. 3 : l[1][i] # l[2][i]})

\* the tested lines are the 49 lines of the cube, each tested once
TestsAreTheCubeLines ==
    /\ Cardinality(TestedLines) = 49
    /\ {CellsOfLine(standardTests[t[1]].lines[t[2]]) : t \in TestedLines}
          = {CellsOfLine(l) : l \in CubeLines}
    /\ Cardinality({CellsOfLine(l) : l \in CubeLines}) = 49
    /\ Cardinality({l \in CubeLines : Varying(l) = 1}) = 27
    /\ Cardinality({l \in CubeLines : Varying(l) = 2}) = 18
    /\ Cardinality({l \in CubeLines : Varying(l) = 3}) = 4

\* line l of b holds three times the mark m
LineHeldBy(b, l, m) == b[l[1]] = m /\ b[l[2]] = m /\ b[l[3]] = m

C19_StandardTestsAllLines ==
    /\ TestsAreTheCubeLines
    /\ isStandard =>
          LET r == checkWinStandard(board)
          IN  /\ r \in Values
              /\ (r = NULL) <=> ~ \E l \in CubeLines, m \in Marks : LineHeldBy(board, l, m)
              /\ (r # NULL) => \E l \in CubeLines : LineHeldBy(board, l, r)

\* checkWinStandard has returned 'O' on a board where a line of X and a line
\* of O are both complete
C19_Witness ==
    /\ isStandard /\ lastOp = "checkWinStandard" /\ ret = "O"
    /\ \E l \in CubeLines : LineHeldBy(board, l, "X")
    /\ \E l \in CubeLines : LineHeldBy(board, l, "O")

(***************************************************************************)
(* C21. The generic path as coded, scanning all 26 non-zero direction      *)
(* vectors and counting forward and backward from the pivot for each,      *)
(* returns for every board and pivot the same verdict as a scan over only  *)
(* the 13 independent axes with count = 1 + forward + backward.            *)
(***************************************************************************)
\* the number of consecutive cells from the i-th after p along d, up to the
\* board edge, that hold the mark of p
RECURSIVE WalkFrom(_, _, _, _)
WalkFrom(b, p, d, i) ==
    IF InBoard(Along(p, d, i)) /\ b[Along(p, d, i)] = b[p]
    THEN 1 + WalkFrom(b, p, d, i + 1)
    ELSE 0

Walk(b, p, d) == WalkFrom(b, p, d, 1)

\* the opposite direction
Negated(d) == <<-d[1], -d[2], -d[3]>>

\* the verdict of the scan over the 13 axes
AxisScan(b, p) ==
    IF \E d \in Axes : 1 + Walk(b, p, d) + Walk(b, p, Negated(d)) >= winLength
    THEN b[p] ELSE NULL

C21_AllDirectionsAgreeWithAxes ==
    (~isStandard /\ lastOp = "new") =>
        \A c \in Cells :
            board[c] # NULL => checkWinGeneric(board, c[1], c[2], c[3]) = AxisScan(board, c)

\* checkWin has returned 'X' for a pivot whose only run lies on a diagonal
\* with the pivot at its far end, so that only a negative vector finds it
C21_Witness ==
    /\ ~isStandard /\ winLength = 2 /\ lastOp = "checkWin" /\ ret = "X"
    /\ MarkedCells(board) = 2
    /\ \E c \in Cells, d \in Axes :
          /\ d[1] # 0 /\ d[2] # 0 /\ d[3] # 0
          /\ InBoard(Along(c, d, 1))
          /\ board[c] = "X" /\ board[Along(c, d, 1)] = "X"

(***************************************************************************)
(* C22. When the accepted move that fills the last empty cell also         *)
(* completes a winning line, the outcome is a win for the mover and not a  *)
(* draw: makeMove returns the mover's mark and winner becomes that mark.   *)
(***************************************************************************)
C22_WinBeforeDraw ==
    [][(MovePlaced /\ moveCount' = totalCells /\ RunThrough(board', Pivot, winLength)) =>
          (ret' = currentPlayer /\ winner' = currentPlayer /\ winner' # "draw")]_vars

\* on a three-cell board with winLength 2, X's second mark has filled the
\* last cell next to its first: the game ends as a win for X
C22_Witness ==
    /\ totalCells = 3 /\ winLength = 2 /\ moveCount = totalCells
    /\ lastOp = "makeMove" /\ target = "free" /\ ret = "X" /\ winner = "X"
    /\ Cardinality({c \in Cells : board[c] = "X"}) = 2
    /\ Cardinality({c \in Cells : board[c] = "O"}) = 1

(***************************************************************************)
(* The click handler of the view: onClick of src/js/main.js and            *)
(* handleClick of src/src/TicTacToe3D.jsx, on the game the view builds.    *)
(***************************************************************************)
\* the longest activeParticles list
MaxParticles == 8

\* a click that the raycaster resolves to the cell with userData (x, y, z)
onClick(x, y, z) ==
    /\ activeParticles < MaxParticles
    /\ makeMove(x, y, z)
    /\ activeParticles' = (IF readCell(board', x, y, z) # NULL
                           THEN activeParticles + 1
                           ELSE activeParticles)
    /\ outcomeReturned' = (outcomeReturned \/ ret' # NULL)

\* new TicTacToe(config.width, config.height, config.depth, config.winLength)
ViewInit ==
    /\ constructor(3, 3, 3, 3)
    /\ outcomeReturned = FALSE
    /\ activeParticles = 0

Click == \E a \in InRangeInputs : onClick(a[1], a[2], a[3])

SpecView == ViewInit /\ [][Click]_vars

(***************************************************************************)
(* C23. In the click handler a marker particle system is added only when   *)
(* the click's makeMove was accepted: over any sequence of clicks the      *)
(* number of active marker particle systems equals the number of occupied  *)
(* cells, so a click on an occupied cell adds nothing.                     *)
(***************************************************************************)
C23_ParticlesMatchMarks ==
    /\ [](activeParticles = MarkedCells(board))
    /\ [][activeParticles' # activeParticles => board' # board]_vars

(***************************************************************************)
(* C24. Over any sequence of clicks in one game (no reset) the view        *)
(* announces the end of the game at most once: after makeMove has returned *)
(* a winner or 'draw', no later click makes makeMove return a non-null     *)
(* result again.                                                           *)
(***************************************************************************)
C24_AnnouncedOnce ==
    [][(outcomeReturned /\ MoveCall) => ret' = NULL]_vars

(***************************************************************************)
(* C25. In every reachable state 0 <= moveCount <= totalCells =            *)
(* width*height*depth, and when moveCount equals totalCells no makeMove    *)
(* call is accepted and the winner field is non-null.                      *)
(***************************************************************************)
C25_MoveCountBounded ==
    /\ [](moveCount >= 0 /\ moveCount <= totalCells)
    /\ [](totalCells = width * height * depth)
    /\ [](moveCount = totalCells => winner # NULL)
    /\ [][(moveCount = totalCells /\ MoveCall) =>
            UNCHANGED <<board, moveCount, currentPlayer, winner>>]_vars

(***************************************************************************)
(* C26. In every reachable state where the winner field is null, the       *)
(* number of 'X' cells minus the number of 'O' cells is 0 or 1, and        *)
(* currentPlayer is 'X' exactly when the two counts are equal.             *)
(***************************************************************************)
\* the number of cells of b that hold mark m
CountOf(b, m) == Cardinality({c \in DOMAIN b : b[c] = m})

C26_MarksBalanced ==
    winner = NULL =>
        /\ CountOf(board, "X") - CountOf(board, "O") \in {0, 1}
        /\ currentPlayer = "X" <=> CountOf(board, "X") = CountOf(board, "O")

\* a game in progress after its third move: two X, one O, O to move
C26_Witness ==
    /\ winner = NULL /\ lastOp = "makeMove" /\ target = "free"
    /\ CountOf(board, "X") = 2 /\ CountOf(board, "O") = 1
    /\ currentPlayer = "O"

(***************************************************************************)
(* C27. In no reachable state, for any board dimensions and winLength,     *)
(* does the board contain a complete winning run (winLength consecutive    *)
(* cells in a straight line) of 'X' and also a complete winning run of     *)
(* 'O'.                                                                    *)
(***************************************************************************)
\* b contains a complete winning run of mark m
HasRun(b, m) == \E c \in DOMAIN b : b[c] = m /\ RunThrough(b, c, winLength)

C27_OneSideHasRuns ==
    ~ (HasRun(board, "X") /\ HasRun(board, "O"))

(***************************************************************************)
(* C28. The value returned by makeMove and the winner field stay           *)
(* consistent: whenever makeMove returns a non-null value the winner field *)
(* equals that value after the call, and while the winner field is null    *)
(* every makeMove call since construction or the last reset has returned   *)
(* null.                                                                   *)
(***************************************************************************)
C28_ReturnMatchesWinner ==
    /\ [](winner = NULL => ~outcomeReturned)
    /\ [][(MoveCall /\ ret' # NULL) => winner' = ret']_vars

\* the move that filled a board of more than one cell has returned 'draw',
\* and the winner field holds 'draw'
C28_Witness ==
    /\ lastOp = "makeMove" /\ ret = "draw" /\ winner = "draw" /\ outcomeReturned
    /\ totalCells > 1 /\ moveCount = totalCells

(***************************************************************************)
(* One game, without reset, on the boards that the model plays to the      *)
(* last cell, under the assumption that a legal move is eventually played  *)
(* while the game is in progress and an empty cell exists.                 *)
(***************************************************************************)
GameInit == Init /\ ~isStandard

GameNext == MakeMove \/ GetCell

\* a makeMove call on an empty cell of a game in progress
LegalMove ==
    /\ winner = NULL
    /\ MakeMove
    /\ board' # board

SpecGame == GameInit /\ [][GameNext]_vars /\ WF_vars(LegalMove)

(***************************************************************************)
(* C29. Every game terminates: assuming that while the game is in progress *)
(* and an empty cell exists some legal move is eventually played, the      *)
(* outcome eventually becomes a win or a draw, after at most               *)
(* width*height*depth accepted moves.                                      *)
(***************************************************************************)
C29_GameTerminates ==
    /\ <>(winner # NULL)
    /\ [](winner = NULL => accepted < width * height * depth)

(***************************************************************************)
(* The earlier fixed-size engine (src/unnamed/part_000): its whole-board   *)
(* checkWin() on the 3x3x3 board.                                          *)
(***************************************************************************)
\* checkLine of the earlier engine: a !== null && a === b && b === c
fixedCheckLine(a, b, c) == a # NULL /\ a = b /\ b = c

\* the space diagonal test returning the first corner instead of the centre
fixedSpaceDiagonalTest_corner ==
    [lines |-> << <<<<0, 0, 0>>, <<1, 1, 1>>, <<2, 2, 2>>>>,
                  <<<<2, 0, 0>>, <<1, 1, 1>>, <<0, 2, 2>>>>,
                  <<<<0, 2, 0>>, <<1, 1, 1>>, <<2, 0, 2>>>>,
                  <<<<2, 2, 0>>, <<1, 1, 1>>, <<0, 0, 2>>>> >>,
     result |-> <<0, 0, 0>>]

\* the last `if` of the earlier checkWin: the four space diagonals joined by ||
fixedSpaceDiagonalTest ==
    [lines |-> << <<<<0, 0, 0>>, <<1, 1, 1>>, <<2, 2, 2>>>>,
                  <<<<2, 0, 0>>, <<1, 1, 1>>, <<0, 2, 2>>>>,
                  <<<<0, 2, 0>>, <<1, 1, 1>>, <<2, 0, 2>>>>,
                  <<<<2, 2, 0>>, <<1, 1, 1>>, <<0, 0, 2>>>> >>,
     result |-> <<1, 1, 1>>]

\* one entry per `if` of the earlier checkWin, in program order
fixedTests ==
    [i \in 1 .. 9 |-> LET z == (i - 1) \div 3
                          y == (i - 1) % 3
                      IN  [lines |-> << <<<<0, y, z>>, <<1, y, z>>, <<2, y, z>>>> >>,
                           result |-> <<0, y, z>>]]
    \o [i \in 1 .. 9 |-> LET z == (i - 1) \div 3
                             x == (i - 1) % 3
                         IN  [lines |-> << <<<<x, 0, z>>, <<x, 1, z>>, <<x, 2, z>>>> >>,
                              result |-> <<x, 0, z>>]]
    \o [i \in 1 .. 9 |-> LET x == (i - 1) \div 3
                             y == (i - 1) % 3
                         IN  [lines |-> << <<<<x, y, 0>>, <<x, y, 1>>, <<x, y, 2>>>> >>,
                              result |-> <<x, y, 0>>]]
    \o [i \in 1 .. 3 |-> LET z == i - 1
                         IN  [lines |-> << <<<<0, 0, z>>, <<1, 1, z>>, <<2, 2, z>>>>,
                                           <<<<2, 0, z>>, <<1, 1, z>>, <<0, 2, z>>>> >>,
                              result |-> <<1, 1, z>>]]
    \o [i \in 1 .. 3 |-> LET y == i - 1
                         IN  [lines |-> << <<<<0, y, 0>>, <<1, y, 1>>, <<2, y, 2>>>>,
                                           <<<<2, y, 0>>, <<1, y, 1>>, <<0, y, 2>>>> >>,
                              result |-> <<1, y, 1>>]]
    \o [i \in 1 .. 3 |-> LET x == i - 1
                         IN  [lines |-> << <<<<x, 0, 0>>, <<x, 1, 1>>, <<x, 2, 2>>>>,
                                           <<<<x, 2, 0>>, <<x, 1, 1>>, <<x, 0, 2>>>> >>,
                              result |-> <<x, 1, 1>>]]
    \o << fixedSpaceDiagonalTest >>

\* the first test of fixedTests, from the k-th on, that holds on b gives the
\* value returned; null when none holds
RECURSIVE fixedScan(_, _)
fixedScan(b, k) ==
    IF k > Len(fixedTests) THEN NULL
    ELSE IF \E j \in 1 .. Len(fixedTests[k].lines) :
                fixedCheckLine(b[fixedTests[k].lines[j][1]],
                               b[fixedTests[k].lines[j][2]],
                               b[fixedTests[k].lines[j][3]])
         THEN b[fixedTests[k].result]
         ELSE fixedScan(b, k + 1)

\* checkWin() of the earlier engine on board b
fixedCheckWin(b) == fixedScan(b, 1)

\* a call of the earlier engine's checkWin() on the content of the board
fixedCheckWinCall ==
    /\ lastOp' = "fixedCheckWin"
    /\ target' = "none"
    /\ ret' = fixedCheckWin(board)
    /\ UNCHANGED <<shape, engine, accepted, outcomeReturned, activeParticles>>

FixedCheckWin == fixedCheckWinCall

BothNext == CheckWinStandard \/ FixedCheckWin

SpecBoth == StandardInit /\ [][BothNext]_vars

(***************************************************************************)
(* C30. The earlier fixed-size engine's whole-board checkWin() and the     *)
(* current engine's checkWinStandard() return the same result (the same    *)
(* mark or null) for every content of a 3x3x3 board.                       *)
(***************************************************************************)
C30_FixedAgreesWithStandard ==
    fixedCheckWin(board) = checkWinStandard(board)

\* the earlier checkWin has returned 'O' on a board where O holds the space
\* diagonal tested last and the first corner holds an X
C30_Witness ==
    /\ lastOp = "fixedCheckWin" /\ ret = "O"
    /\ board[<<0, 0, 0>>] = "X"
    /\ LineHeldBy(board, <<<<2, 2, 0>>, <<1, 1, 1>>, <<0, 0, 2>>>>, "O")

====
